---- MODULE Spec2Model ----
(***************************************************************************)
(* AEOS ML Server (src/app.py): the FastAPI service with the endpoints     *)
(* /health, /predict, /anomalies, /statistics, /model-info and /, and the  *)
(* module-level `model` loaded once from model.pkl.                        *)
(*                                                                         *)
(* Numbers.  The handlers compute on float64 arrays.  Here every number is *)
(* an exact rational [num, den] in lowest terms with den > 0, so equality  *)
(* of numbers is equality of records.  float64 rounding is not modelled.   *)
(* A z-score is |x - mean| / std with std a square root; it is held by its *)
(* square (z-scores are non-negative, so squaring keeps their order).      *)
(*                                                                         *)
(* Requests.  One request is in flight at a time: no handler of app.py     *)
(* contains an await, so on the event loop each handler runs to completion *)
(* before the next one starts.  A request is received, handled by its      *)
(* handler in one step, and replied to.  Timestamps are left out.          *)
(***************************************************************************)
EXTENDS Integers, Sequences, FiniteSets, TLC

\* Bounds of the model.
MaxLen == 5
MaxHorizon == 3
MaxModelOut == 4

\* The readings a series is drawn from, the thresholds and the machine ids.
Values == {-98, 1, 100}
MachineIds == {"pump-1"}

----------------------------------------------------------------------------
\* Exact rational arithmetic.

Abs(a) == IF a < 0 THEN -a ELSE a

RECURSIVE GCD(_, _)
GCD(a, b) == IF b = 0 THEN a ELSE GCD(b, a % b)

Rat(a, b) ==
    LET g == GCD(Abs(a), b)
    IN  [num |-> a \div g, den |-> b \div g]

Num(a) == Rat(a, 1)

RAdd(x, y) ==
    LET l == (x.den \div GCD(x.den, y.den)) * y.den
    IN  Rat(x.num * (l \div x.den) + y.num * (l \div y.den), l)

RNeg(x) == [num |-> -x.num, den |-> x.den]

RSub(x, y) == RAdd(x, RNeg(y))

RMul(x, y) ==
    LET g1 == GCD(Abs(x.num), y.den)
        g2 == GCD(Abs(y.num), x.den)
    IN  Rat((x.num \div g1) * (y.num \div g2), (x.den \div g2) * (y.den \div g1))

\* x / y for y # 0
RDiv(x, y) ==
    IF y.num > 0 THEN RMul(x, [num |-> y.den, den |-> y.num])
    ELSE RMul(x, [num |-> -y.den, den |-> -y.num])

RAbs(x) == [num |-> Abs(x.num), den |-> x.den]

RLt(x, y) == x.num * y.den < y.num * x.den

RLe(x, y) == x.num * y.den <= y.num * x.den

Thresholds == {Num(-1), Num(0), Rat(1, 2), Num(2), Num(3)}

----------------------------------------------------------------------------
\* numpy on a one-dimensional array, held as a sequence of rationals.

\* np.array(list of float)
np_array(xs) == [i \in 1..Len(xs) |-> Num(xs[i])]

RECURSIVE SumSeq(_)
SumSeq(a) == IF a = <<>> THEN Num(0) ELSE RAdd(a[1], SumSeq(Tail(a)))

\* np.mean(a), for a non-empty a
np_mean(a) == RDiv(SumSeq(a), Num(Len(a)))

\* np.std(a) ** 2: the population variance, mean(|a - mean(a)| ** 2)
np_var(a) ==
    LET m == np_mean(a)
    IN  np_mean([i \in 1..Len(a) |-> RMul(RSub(a[i], m), RSub(a[i], m))])

RECURSIVE np_min(_)
np_min(a) ==
    IF Len(a) = 1 THEN a[1]
    ELSE LET r == np_min(Tail(a)) IN IF RLt(r, a[1]) THEN r ELSE a[1]

RECURSIVE np_max(_)
np_max(a) ==
    IF Len(a) = 1 THEN a[1]
    ELSE LET r == np_max(Tail(a)) IN IF RLt(a[1], r) THEN r ELSE a[1]

RECURSIVE Insert(_, _)
Insert(x, a) ==
    IF a = <<>> THEN <<x>>
    ELSE IF RLe(x, a[1]) THEN <<x>> \o a
    ELSE <<a[1]>> \o Insert(x, Tail(a))

RECURSIVE Sorted(_)
Sorted(a) == IF a = <<>> THEN <<>> ELSE Insert(a[1], Sorted(Tail(a)))

\* np.percentile(a, q) with the default linear interpolation, for a
\* non-empty a and q in 0..100: the value at the virtual index
\* (len - 1) * q / 100 of the sorted array.
np_percentile(a, q) ==
    LET s  == Sorted(a)
        h  == (Len(a) - 1) * q
        lo == h \div 100
        hi == IF lo + 1 < Len(a) THEN lo + 1 ELSE lo
    IN  RAdd(s[lo + 1], RMul(Rat(h % 100, 100), RSub(s[hi + 1], s[lo + 1])))

\* np.median(a)
np_median(a) == np_percentile(a, 50)

\* Python's range(n) as the positions 1..n of a loop: empty for n <= 0
Range(n) == 1..(IF n < 0 THEN 0 ELSE n)

\* Python's lst[:k]: the first k elements, or all but the last -k for k < 0
SlicePrefix(lst, k) ==
    LET n == IF k >= 0 THEN (IF k < Len(lst) THEN k ELSE Len(lst))
             ELSE (IF Len(lst) + k > 0 THEN Len(lst) + k ELSE 0)
    IN  SubSeq(lst, 1, n)

\* Python's [x] * k: empty for k <= 0
Repeat(x, k) == [i \in Range(k) |-> x]

----------------------------------------------------------------------------
\* The module-level state and the requests.

VARIABLES
    model_file,   \* model.pkl on disk: "missing", "unreadable" or "ok"
    model,        \* the global `model`: None or the unpickled object
    pc,           \* "startup", "idle", "handling" or "replying"
    request,      \* the request being handled
    response,     \* what its handler returned or raised
    model_call    \* what model.predict did during the handler

vars == <<model_file, model, pc, request, response, model_call>>

None == "None"
Loaded == "model.pkl"

NoRequest == [endpoint |-> "none"]
NoResponse == [status |-> 0]

\* model.predict(...) as the handler sees it: not called, raised, or
\* returned an array that flattens to `values`
NotCalled == [called |-> FALSE, raised |-> FALSE, values |-> <<>>]
Raised == [called |-> TRUE, raised |-> TRUE, values |-> <<>>]
Returned(vs) == [called |-> TRUE, raised |-> FALSE, values |-> vs]

\* What the loaded object may do on one call (it is opaque to app.py)
ModelOutcomes ==
    {Raised} \cup {Returned([i \in 1..m |-> Num(10 * i)]) : m \in 0..MaxModelOut}

Series == UNION {[1..n -> Values] : n \in 0..MaxLen}

\* PredictionRequest, AnomalyRequest, the body of /statistics, and the GETs
PredictionRequests ==
    [endpoint : {"/predict"}, machine_id : MachineIds,
     historical_data : Series, future_periods : -1..MaxHorizon]

AnomalyRequests ==
    [endpoint : {"/anomalies"}, machine_id : MachineIds,
     data : Series, threshold : Thresholds]

StatisticsRequests == [endpoint : {"/statistics"}, data : Series]

GetRequests == [endpoint : {"/health", "/model-info", "/"}]

Requests ==
    PredictionRequests \cup AnomalyRequests \cup StatisticsRequests \cup GetRequests

HTTPException(status_code, detail) == [status |-> status_code, detail |-> detail]

----------------------------------------------------------------------------
\* /predict

ConfidenceFallback == Rat(6, 10)
ConfidenceModel == Rat(9, 10)
ConfidenceDegraded == Rat(5, 10)

alpha == Rat(3, 10)

PredictionResponse(machine_id, predictions, confidence) ==
    [status |-> 200, machine_id |-> machine_id,
     predictions |-> predictions, confidence |-> confidence]

\* The weight (1 - alpha) of the mean is dropped
PredictedUnweightedMean(last_value, data) ==
    RAdd(RMul(alpha, last_value), np_mean(data))

\* One pass of the loop body: alpha * last_value + (1 - alpha) * np.mean(data)
Predicted(last_value, data) ==
    RAdd(RMul(alpha, last_value), RMul(RSub(Num(1), alpha), np_mean(data)))

\* The loop runs over range(future_periods - 1)
RECURSIVE SmoothingOffByOne(_, _, _)
SmoothingOffByOne(last_value, data, periods) ==
    IF periods <= 1 THEN <<>>
    ELSE LET predicted == Predicted(last_value, data)
         IN  <<predicted>> \o SmoothingOffByOne(predicted, data, periods - 1)

\* last_value is never updated: every pass smooths from data[-1]
SmoothingFromLastObserved(last_value, data, periods) ==
    Repeat(Predicted(last_value, data), periods)

\* The loop over range(future_periods), each pass feeding the next
RECURSIVE Smoothing(_, _, _)
Smoothing(last_value, data, periods) ==
    IF periods <= 0 THEN <<>>
    ELSE LET predicted == Predicted(last_value, data)
         IN  <<predicted>> \o Smoothing(predicted, data, periods - 1)

\* model is None: exponential smoothing from data[-1]
FallbackPrediction(req, data) ==
    PredictionResponse(req.machine_id,
                       Smoothing(data[Len(data)], data, req.future_periods),
                       ConfidenceFallback)

\* The slice [:future_periods] is dropped
ModelPredictionUntruncated(req, outcome) ==
    PredictionResponse(req.machine_id, outcome.values, ConfidenceModel)

\* model.predict returned: .flatten().tolist()[:future_periods]
ModelPrediction(req, outcome) ==
    PredictionResponse(req.machine_id,
                       SlicePrefix(outcome.values, req.future_periods),
                       ConfidenceModel)

\* The failure of model.predict reaches the outer except Exception
DegradedPropagates(req, data) ==
    HTTPException(500, "Prediction error")

\* model.predict raised: the bare except
DegradedPrediction(req, data) ==
    PredictionResponse(req.machine_id,
                       Repeat(np_mean(data), req.future_periods),
                       ConfidenceDegraded)

\* The length check comes after the model branch
predict_consumption_validates_late(req, mdl, outcome) ==
    LET data == np_array(req.historical_data)
    IN  IF mdl # None /\ Len(data) < 2
        THEN [response |-> HTTPException(400, "Need at least 2 historical data points"),
              call |-> outcome]
        ELSE IF Len(data) < 2
        THEN [response |-> HTTPException(400, "Need at least 2 historical data points"),
              call |-> NotCalled]
        ELSE IF mdl = None
        THEN [response |-> FallbackPrediction(req, data), call |-> NotCalled]
        ELSE IF outcome.raised
        THEN [response |-> DegradedPrediction(req, data), call |-> outcome]
        ELSE [response |-> ModelPrediction(req, outcome), call |-> outcome]

\* The handler: the response, and what it did with model.predict
predict_consumption(req, mdl, outcome) ==
    LET data == np_array(req.historical_data)
    IN  IF Len(data) < 2
        THEN [response |-> HTTPException(400, "Need at least 2 historical data points"),
              call |-> NotCalled]
        ELSE IF mdl = None
        THEN [response |-> FallbackPrediction(req, data), call |-> NotCalled]
        ELSE IF outcome.raised
        THEN [response |-> DegradedPrediction(req, data), call |-> outcome]
        ELSE [response |-> ModelPrediction(req, outcome), call |-> outcome]

----------------------------------------------------------------------------
\* /anomalies

AnomalyResponse(machine_id, anomalies, anomaly_scores) ==
    [status |-> 200, machine_id |-> machine_id,
     anomalies |-> anomalies, anomaly_scores |-> anomaly_scores]

\* The z-scores, each held by its square: zeros when std == 0, else
\* np.abs((data - mean) / std)
ZScores(data) ==
    LET mean == np_mean(data)
        var  == np_var(data)
    IN  IF var.num = 0
        THEN [i \in 1..Len(data) |-> Num(0)]
        ELSE [i \in 1..Len(data) |->
                 RDiv(RMul(RSub(data[i], mean), RSub(data[i], mean)), var)]

\* z >= threshold
ExceedsOrEquals(z_sq, threshold) ==
    threshold.num < 0 \/ RLe(RMul(threshold, threshold), z_sq)

\* z > threshold, for a z-score held by its square
Exceeds(z_sq, threshold) ==
    threshold.num < 0 \/ RLt(RMul(threshold, threshold), z_sq)

\* np.where(mask)[0].tolist(): the 0-based positions, ascending
RECURSIVE Where(_, _, _)
Where(z_scores, threshold, i) ==
    IF i > Len(z_scores) THEN <<>>
    ELSE (IF Exceeds(z_scores[i], threshold) THEN <<i - 1>> ELSE <<>>)
         \o Where(z_scores, threshold, i + 1)

\* anomaly_scores holds the scores of the flagged points only
AnomalyResultFlaggedScoresOnly(req, data) ==
    LET z_scores == ZScores(data)
        flagged  == Where(z_scores, req.threshold, 1)
    IN  AnomalyResponse(req.machine_id, flagged,
                        [k \in 1..Len(flagged) |-> z_scores[flagged[k] + 1]])

AnomalyResult(req, data) ==
    LET z_scores == ZScores(data)
    IN  AnomalyResponse(req.machine_id, Where(z_scores, req.threshold, 1), z_scores)

detect_anomalies(req) ==
    LET data == np_array(req.data)
    IN  IF Len(data) < 3
        THEN HTTPException(400, "Need at least 3 data points")
        ELSE AnomalyResult(req, data)

----------------------------------------------------------------------------
\* /statistics, /health, /model-info and /

\* np.min of an empty array raises, which the handler turns into a 500;
\* std is held by its square
calculate_statistics(req) ==
    LET arr == np_array(req.data)
    IN  IF Len(arr) = 0
        THEN HTTPException(500, "Statistics error")
        ELSE [status |-> 200, count |-> Len(arr), mean |-> np_mean(arr),
              median |-> np_median(arr), std_squared |-> np_var(arr),
              min |-> np_min(arr), max |-> np_max(arr),
              quartile_25 |-> np_percentile(arr, 25),
              quartile_75 |-> np_percentile(arr, 75)]

health_check(mdl) ==
    [status |-> 200, health |-> "healthy", model_loaded |-> (mdl # None)]

get_model_info(mdl) ==
    [status |-> 200, model_loaded |-> (mdl # None), model_path |-> "model.pkl",
     version |-> "1.0.0",
     capabilities |-> <<"energy_prediction", "anomaly_detection",
                        "statistics", "health_check">>]

root ==
    [status |-> 200, service |-> "AEOS ML Server", version |-> "1.0.0",
     active |-> "active"]

----------------------------------------------------------------------------
\* The state machine.

Init ==
    /\ model_file \in {"missing", "unreadable", "ok"}
    /\ model = None
    /\ pc = "startup"
    /\ request = NoRequest
    /\ response = NoResponse
    /\ model_call = NotCalled

\* Module import: model stays None unless model.pkl exists and unpickles
LoadModel ==
    /\ pc = "startup"
    /\ model' = IF model_file = "ok" THEN Loaded ELSE None
    /\ pc' = "idle"
    /\ UNCHANGED <<model_file, request, response, model_call>>

\* The framework routes a request to its handler
Receive ==
    /\ pc = "idle"
    /\ \E req \in Requests : request' = req
    /\ pc' = "handling"
    /\ UNCHANGED <<model_file, model, response, model_call>>

\* A failing model is dropped: model = None after model.predict raised
HandlePredictDropsModel ==
    /\ pc = "handling"
    /\ request.endpoint = "/predict"
    /\ \E outcome \in ModelOutcomes :
          LET r == predict_consumption(request, model, outcome)
          IN  /\ response' = r.response
              /\ model_call' = r.call
              /\ model' = IF r.call.raised THEN None ELSE model
    /\ pc' = "replying"
    /\ UNCHANGED <<model_file, request>>

HandlePredict ==
    /\ pc = "handling"
    /\ request.endpoint = "/predict"
    /\ \E outcome \in ModelOutcomes :
          LET r == predict_consumption(request, model, outcome)
          IN  /\ response' = r.response
              /\ model_call' = r.call
    /\ pc' = "replying"
    /\ UNCHANGED <<model_file, model, request>>

HandleAnomalies ==
    /\ pc = "handling"
    /\ request.endpoint = "/anomalies"
    /\ response' = detect_anomalies(request)
    /\ pc' = "replying"
    /\ UNCHANGED <<model_file, model, request, model_call>>

HandleStatistics ==
    /\ pc = "handling"
    /\ request.endpoint = "/statistics"
    /\ response' = calculate_statistics(request)
    /\ pc' = "replying"
    /\ UNCHANGED <<model_file, model, request, model_call>>

HandleHealth ==
    /\ pc = "handling"
    /\ request.endpoint = "/health"
    /\ response' = health_check(model)
    /\ pc' = "replying"
    /\ UNCHANGED <<model_file, model, request, model_call>>

HandleModelInfo ==
    /\ pc = "handling"
    /\ request.endpoint = "/model-info"
    /\ response' = get_model_info(model)
    /\ pc' = "replying"
    /\ UNCHANGED <<model_file, model, request, model_call>>

HandleRoot ==
    /\ pc = "handling"
    /\ request.endpoint = "/"
    /\ response' = root
    /\ pc' = "replying"
    /\ UNCHANGED <<model_file, model, request, model_call>>

\* The framework sends the response; the handler's frame is gone
Reply ==
    /\ pc = "replying"
    /\ request' = NoRequest
    /\ response' = NoResponse
    /\ model_call' = NotCalled
    /\ pc' = "idle"
    /\ UNCHANGED <<model_file, model>>

Next ==
    \/ LoadModel
    \/ Receive
    \/ HandlePredict
    \/ HandleAnomalies
    \/ HandleStatistics
    \/ HandleHealth
    \/ HandleModelInfo
    \/ HandleRoot
    \/ Reply

Spec == Init /\ [][Next]_vars

----------------------------------------------------------------------------
\* Properties.  A handler's result is read in the state it leaves, before
\* the reply: pc = "replying", with the request, the response and the
\* model call of that handler.

Handled(endpoint) == pc = "replying" /\ request.endpoint = endpoint

HistoricalData == np_array(request.historical_data)

\* /predict ran on at least 2 points with a horizon >= 0
Forecast ==
    /\ Handled("/predict")
    /\ Len(request.historical_data) >= 2
    /\ request.future_periods >= 0

FallbackForecast == Forecast /\ model = None

LastObserved == HistoricalData[Len(HistoricalData)]

Distance(x, y) == RAbs(RSub(x, y))

Between(x, a, b) == (RLe(a, x) /\ RLe(x, b)) \/ (RLe(b, x) /\ RLe(x, a))

\* C1: with no model loaded, /predict on a series of at least 2 points and
\* a horizon >= 0 succeeds with exactly `horizon` predictions (none for
\* horizon 0) and confidence 0.6.
C1_FallbackLengthAndConfidence ==
    FallbackForecast =>
        /\ response.status = 200
        /\ Len(response.predictions) = request.future_periods
        /\ response.confidence = Rat(6, 10)

C1_Witness ==
    /\ FallbackForecast
    /\ request.future_periods = MaxHorizon
    /\ Len(response.predictions) = MaxHorizon

C3_ModelFailureDegrades ==
    (Forecast /\ model # None /\ model_call.raised) =>
        /\ response.status = 200
        /\ response.confidence = Rat(5, 10)
        /\ Len(response.predictions) = request.future_periods
        /\ \A t \in 1..Len(response.predictions) :
               response.predictions[t] = np_mean(HistoricalData)

C3_Witness ==
    /\ Forecast
    /\ model # None
    /\ model_call.raised
    /\ request.future_periods >= 2
    /\ response.status = 200

\* /anomalies ran on at least 3 points
Detection == Handled("/anomalies") /\ Len(request.data) >= 3

\* C4: /anomalies on a series of at least 3 points returns one score per
\* point, and anomaly indices that are strictly increasing, within
\* [0, len(series)), and exactly the positions whose score is > threshold.
C4_ScoresAndIndices ==
    Detection =>
        /\ response.status = 200
        /\ Len(response.anomaly_scores) = Len(request.data)
        /\ \A k \in 1..Len(response.anomalies) :
               /\ response.anomalies[k] \in 0..(Len(request.data) - 1)
               /\ k > 1 => response.anomalies[k - 1] < response.anomalies[k]
        /\ {response.anomalies[k] : k \in 1..Len(response.anomalies)}
             = {i \in 0..(Len(request.data) - 1) :
                    Exceeds(response.anomaly_scores[i + 1], request.threshold)}

C4_Witness ==
    /\ Detection
    /\ Len(response.anomalies) >= 2
    /\ Len(response.anomalies) < Len(request.data)

ConstantSeries == \A i \in 1..Len(request.data) : request.data[i] = request.data[1]

\* C5: /anomalies on a constant series of at least 3 points returns no
\* anomaly index and all-zero scores, whatever the threshold (zero and
\* negative thresholds included).
C5_ConstantSeriesNoAnomalies ==
    (Detection /\ ConstantSeries) =>
        /\ response.status = 200
        /\ response.anomalies = <<>>
        /\ \A i \in 1..Len(response.anomaly_scores) :
               response.anomaly_scores[i] = Num(0)

\* C6: /predict on fewer than 2 points and /anomalies on fewer than 3 end
\* in a 400 (no 500, no success), whatever the horizon, the threshold and
\* the model, and model.predict is not called.
C6_InsufficientDataRejected ==
    (\/ Handled("/predict") /\ Len(request.historical_data) < 2
     \/ Handled("/anomalies") /\ Len(request.data) < 3) =>
        /\ response.status = 400
        /\ ~model_call.called

C6_Witness ==
    /\ Handled("/predict")
    /\ Len(request.historical_data) = 1
    /\ model # None
    /\ response.status = 400

BoundarySeries ==
    /\ Handled("/anomalies")
    /\ request.data = <<1, 1, 1, 1, 100>>
    /\ request.threshold = Num(2)

\* C8 as stated: /anomalies on [1, 1, 1, 1, 100] with threshold 2.0 flags
\* index 4.
C8_Index4Flagged ==
    BoundarySeries =>
        \E k \in 1..Len(response.anomalies) : response.anomalies[k] = 4

\* C8 amended: /anomalies on [1, 1, 1, 1, 100] with threshold 2.0 flags
\* nothing: the score of index 4 is exactly 2.0 (its square is 4), which
\* is not > 2.0; the other scores are 0.5.
C8_Index4OnBoundary ==
    BoundarySeries =>
        /\ response.anomalies = <<>>
        /\ response.anomaly_scores[5] = Num(4)
        /\ \A i \in 1..4 : response.anomaly_scores[i] = Rat(1, 4)

C8_Witness == BoundarySeries /\ response.status = 200

ModelForecast == Forecast /\ model # None /\ model_call.called /\ ~model_call.raised

\* C9: with a model loaded whose predict returns m values, /predict on a
\* series of at least 2 points and a horizon >= 0 returns confidence 0.9
\* and the first min(horizon, m) model values in order, unpadded: at most
\* `horizon` predictions, and exactly `horizon` iff m >= horizon.
C9_ModelTruncatesNoPadding ==
    ModelForecast =>
        LET m == Len(model_call.values)
            h == request.future_periods
        IN  /\ response.status = 200
            /\ response.confidence = Rat(9, 10)
            /\ response.predictions = SubSeq(model_call.values, 1, IF h < m THEN h ELSE m)
            /\ Len(response.predictions) <= h
            /\ Len(response.predictions) = h <=> m >= h

C9_Witness ==
    /\ ModelForecast
    /\ Len(model_call.values) > request.future_periods
    /\ request.future_periods >= 1
    /\ Len(response.predictions) = request.future_periods

\* The prediction before the t-th: series[-1] for the first
Previous(t) == IF t = 1 THEN LastObserved ELSE response.predictions[t - 1]

====
